---- MODULE Spec2Model ----
(***************************************************************************)
(* Model of scripts/lib/devtool/testimage.py: the devtool 'test-image'     *)
(* subcommand.  One run of test_image() is a sequence of steps; the        *)
(* collaborators (tinfoil, parse_recipe, os.makedirs, build_image_task)    *)
(* are the environment, their answers drawn from small sets.               *)
(*                                                                         *)
(* Python strings are sequences of one-character strings, so that split,   *)
(* strip, join and sorted are computed as Python computes them.  A piece   *)
(* of fixed text whose characters never matter is one element.  Python's   *)
(* None is the empty set and a present value v is {v}.                     *)
(***************************************************************************)
EXTENDS Integers, Sequences, FiniteSets, TLC

VARIABLES
    pc,             \* position of the run inside test_image
    args_imagename, \* args.imagename: None or a string
    args_package,   \* args.package: None or a string
    recipes,        \* what parse_recipe answers for each recipe name
    fs,             \* what is at the log directory path: "absent", "dir", "file"
    package_names,  \* line 54
    idx,            \* position of the for loop of _collect_install_packages
    install,        \* the list _collect_install_packages accumulates
    install_pkgs,   \* line 61: None until the resolver has returned
    pending,        \* the exception travelling through the finally clause
    error,          \* the exception test_image ended with, or None
    extra_append,   \* lines 72-90
    result,         \* line 97: None, or the invoker's result code
    retval,         \* line 109: None, or what test_image returned
    calls,          \* the calls made to the collaborators, in order
    dispatched,     \* the argument lists build_image_task was called with
    log             \* the logger calls, in order

vars == <<pc, args_imagename, args_package, recipes, fs, package_names, idx,
          install, install_pkgs, pending, error, extra_append, result, retval,
          calls, dispatched, log>>

-----------------------------------------------------------------------------
(* Bounds of the model *)

\* segments of the comma-separated package argument
MaxNames == 3
\* the invoker's result codes are 0..MaxResult
MaxResult == 2

-----------------------------------------------------------------------------
(* Python values *)

None == {}
Some(v) == {v}
Val(o) == CHOOSE v \in o : TRUE

\* str.isspace() of the characters the model uses
Whitespace == {" ", "\t", "\n"}

\* ord(c) of the characters the model uses
Ord(c) ==
    CASE c = "\t" -> 9
      [] c = "\n" -> 10
      [] c = " " -> 32
      [] c = "," -> 44
      [] c = "-" -> 45
      [] c = "a" -> 97
      [] c = "b" -> 98
      [] c = "d" -> 100
      [] c = "e" -> 101
      [] c = "g" -> 103
      [] c = "p" -> 112
      [] c = "s" -> 115
      [] c = "t" -> 116

\* a < b on str: by code point, a proper prefix first
RECURSIVE StrLess(_, _)
StrLess(a, b) ==
    IF b = <<>> THEN FALSE
    ELSE IF a = <<>> THEN TRUE
    ELSE IF Head(a) = Head(b) THEN StrLess(Tail(a), Tail(b))
    ELSE Ord(Head(a)) < Ord(Head(b))

RECURSIVE lstrip(_)
lstrip(s) ==
    IF s # <<>> /\ Head(s) \in Whitespace THEN lstrip(Tail(s)) ELSE s

RECURSIVE rstrip(_)
rstrip(s) ==
    IF s # <<>> /\ s[Len(s)] \in Whitespace
    THEN rstrip(SubSeq(s, 1, Len(s) - 1))
    ELSE s

\* str.strip()
strip(s) == rstrip(lstrip(s))

\* s.split(sep) for a one-character sep: never empty, keeps empty fields
RECURSIVE split_on(_, _, _)
split_on(s, sep, cur) ==
    IF s = <<>> THEN <<cur>>
    ELSE IF Head(s) = sep THEN <<cur>> \o split_on(Tail(s), sep, <<>>)
    ELSE split_on(Tail(s), sep, Append(cur, Head(s)))

\* s.split(): on runs of whitespace, no empty fields
RECURSIVE split_ws(_, _)
split_ws(s, cur) ==
    IF s = <<>> THEN (IF cur = <<>> THEN <<>> ELSE <<cur>>)
    ELSE IF Head(s) \in Whitespace
         THEN (IF cur = <<>> THEN <<>> ELSE <<cur>>) \o split_ws(Tail(s), <<>>)
         ELSE split_ws(Tail(s), Append(cur, Head(s)))

\* sep.join(list)
RECURSIVE join(_, _)
join(sep, list) ==
    IF list = <<>> THEN <<>>
    ELSE IF Len(list) = 1 THEN list[1]
    ELSE list[1] \o sep \o join(sep, Tail(list))

\* set(list)
set(list) == {list[i] : i \in DOMAIN list}

\* sorted(S) of a set of str
RECURSIVE sorted(_)
sorted(S) ==
    IF S = {} THEN <<>>
    ELSE LET m == CHOOSE x \in S : \A y \in S \ {x} : StrLess(x, y)
         IN  <<m>> \o sorted(S \ {m})

\* [x for x in list if keep(x)]
RECURSIVE SelectNonBlank(_)
SelectNonBlank(list) ==
    IF list = <<>> THEN <<>>
    ELSE IF strip(Head(list)) # <<>>
         THEN <<strip(Head(list))>> \o SelectNonBlank(Tail(list))
         ELSE SelectNonBlank(Tail(list))

-----------------------------------------------------------------------------
(* The pure parts of testimage.py *)

\* [x for x in list if x]
RECURSIVE SelectNonEmpty(_)
SelectNonEmpty(list) ==
    IF list = <<>> THEN <<>>
    ELSE IF Head(list) # <<>>
         THEN <<strip(Head(list))>> \o SelectNonEmpty(Tail(list))
         ELSE SelectNonEmpty(Tail(list))

\* faulty variant of line 54: [p.strip() for p in args.package.split(',') if p]
PackageNames_KeepBlank(package) == SelectNonEmpty(split_on(package, ",", <<>>))

\* line 54: [p.strip() for p in args.package.split(',') if p.strip()]
PackageNames(package) == SelectNonBlank(split_on(package, ",", <<>>))

\* line 37: f'{pn}-ptest'
PtestPkg(pn) == pn \o <<"-", "p", "t", "e", "s", "t">>

\* lines 35-36: (rd.getVar('PACKAGES') or '').split()
Packages(packages_var) ==
    split_ws(IF packages_var = None THEN <<>> ELSE Val(packages_var), <<>>)

\* a is a prefix of b
IsPrefix(a, b) == Len(a) <= Len(b) /\ SubSeq(b, 1, Len(a)) = a

\* faulty variant of line 38: a package whose name starts with ptest_pkg counts
HasPtest_Prefix(packages, ptest_pkg) ==
    \E i \in DOMAIN packages : IsPrefix(ptest_pkg, packages[i])

\* line 38: ptest_pkg in packages
HasPtest(packages, ptest_pkg) == ptest_pkg \in set(packages)

\* faulty variant of lines 34-39: the -ptest package is appended before the package
Appended_PtestFirst(pn, packages) ==
    IF PtestPkg(pn) \in set(packages) THEN <<PtestPkg(pn), pn>> ELSE <<pn>>

\* lines 34-39: what one iteration of the loop appends
Appended(pn, packages) ==
    IF HasPtest(packages, PtestPkg(pn)) THEN <<pn, PtestPkg(pn)>> ELSE <<pn>>

\* config.workspace_path
WorkspacePath == <<"/", "workspace">>

\* line 65: os.path.join(config.workspace_path, 'testimage-logs')
LogDir ==
    IF WorkspacePath[Len(WorkspacePath)] = "/"
    THEN WorkspacePath \o <<"testimage-logs">>
    ELSE WorkspacePath \o <<"/", "testimage-logs">>

\* faulty variant of line 71: ' '.join(install_pkgs)
PkgAppend_Unsorted(pkgs) == join(<<" ">>, pkgs)

\* line 71: ' '.join(sorted(set(install_pkgs)))
PkgAppend(pkgs) == join(<<" ">>, sorted(set(pkgs)))

Stmt(var, flag, op, value) ==
    [var |-> var, flag |-> flag, op |-> op, value |-> value]

\* faulty variant of lines 72-90: the do_testimage[depends] statement is left out
ExtraAppend_NoDepends(logdir, pkg_append) ==
    << Stmt("TEST_LOG_DIR", "", "=", logdir),
       Stmt("TESTIMAGE_UPDATE_VARS", "", ":append",
            <<" TEST_LOG_DIR IMAGE_CLASSES TEST_SUITES DISTRO_FEATURES">>),
       Stmt("IMAGE_CLASSES", "", "+=", <<" testimage">>),
       Stmt("TEST_SUITES", "", "=", <<"ping ssh ptest">>),
       Stmt("DISTRO_FEATURES", "", ":append", <<" ptest">>),
       Stmt("TEST_RUNQEMUPARAMS", "", "=", <<"slirp">>),
       Stmt("IMAGE_FSTYPES", "", ":append", <<" ext4">>),
       Stmt("QB_DEFAULT_FSTYPE", "", "=", <<"ext4">>),
       Stmt("IMAGE_INSTALL", "", ":append", <<" ">> \o pkg_append) >>

\* lines 72-90: the overlay, one record per statement
ExtraAppend(logdir, pkg_append) ==
    << Stmt("TEST_LOG_DIR", "", "=", logdir),
       Stmt("TESTIMAGE_UPDATE_VARS", "", ":append",
            <<" TEST_LOG_DIR IMAGE_CLASSES TEST_SUITES DISTRO_FEATURES">>),
       Stmt("IMAGE_CLASSES", "", "+=", <<" testimage">>),
       Stmt("do_testimage", "depends", "+=", <<" ${PN}:do_image_complete">>),
       Stmt("TEST_SUITES", "", "=", <<"ping ssh ptest">>),
       Stmt("DISTRO_FEATURES", "", ":append", <<" ptest">>),
       Stmt("TEST_RUNQEMUPARAMS", "", "=", <<"slirp">>),
       Stmt("IMAGE_FSTYPES", "", ":append", <<" ext4">>),
       Stmt("QB_DEFAULT_FSTYPE", "", "=", <<"ext4">>),
       Stmt("IMAGE_INSTALL", "", ":append", <<" ">> \o pkg_append) >>

DevtoolError(msg) == [type |-> "DevtoolError", msg |-> msg]

\* an exception raised inside build_image_task
InvokerError == [type |-> "DevtoolError", msg |-> <<"build_image_task failed">>]

Call(name, arg) == [call |-> name, arg |-> arg]

LogRec(level, fmt, a) == [level |-> level, fmt |-> fmt, args |-> a]

-----------------------------------------------------------------------------
(* The environment *)

RecipeA == <<"a">>
RecipeB == <<"b">>

\* the names parse_recipe can know: recipe names hold no whitespace
RecipeNames == {RecipeA, RecipeB, PtestPkg(RecipeA)}

\* PACKAGES of a recipe: unset, without and with the -ptest package, and with
\* a package that only starts with the -ptest name
PackagesVars(pn) ==
    { None,
      Some(pn),
      Some(pn \o <<" ", "\t">> \o PtestPkg(pn) \o <<"\n">>),
      Some(PtestPkg(pn) \o <<"-", "d", "b", "g", " ">> \o pn) }

\* rd: None when the recipe is not found, else its PACKAGES variable
RecipeData(pn) ==
    IF pn = RecipeA THEN {None} \cup {Some(v) : v \in PackagesVars(pn)}
    ELSE IF pn = RecipeB
         THEN {None, Some(Some(pn \o <<" ">> \o PtestPkg(pn)))}
         ELSE {None, Some(Some(pn))}

RecipeDBs == {db \in [RecipeNames -> UNION {RecipeData(pn) : pn \in RecipeNames}] :
                \A pn \in RecipeNames : db[pn] \in RecipeData(pn)}

\* line 29: parse_recipe(config, tinfoil, pn, True)
parse_recipe(db, pn) == IF pn \in DOMAIN db THEN db[pn] ELSE None

\* the fields of the package argument between the commas
\* (one of them a name with a blank inside, which no recipe has)
Segments ==
    { <<>>, <<" ">>, RecipeA, <<" ">> \o RecipeA \o <<"\t">>, RecipeB,
      PtestPkg(RecipeA), RecipeA \o <<" ">> \o RecipeB }

RECURSIVE ArgsOfLen(_)
ArgsOfLen(n) ==
    IF n = 1 THEN Segments
    ELSE {a \o <<",">> \o s : a \in ArgsOfLen(n - 1), s \in Segments}

PackageArgs ==
    {None} \cup {Some(a) : a \in UNION {ArgsOfLen(n) : n \in 1..MaxNames}}

ImageArgs == {None, Some(<<>>), Some(<<"core-image-minimal">>)}

\* faulty variant: os.makedirs(logdir), without exist_ok=True
MakedirsOutcomes_NoExistOk(at) ==
    IF at = "absent" THEN {None, Some("PermissionError")}
    ELSE {Some("FileExistsError")}

\* os.makedirs(logdir, exist_ok=True): the outcomes for what is at the path
\* (None: no exception)
MakedirsOutcomes(at) ==
    IF at = "dir" THEN {None}
    ELSE IF at = "file" THEN {Some("FileExistsError")}
    ELSE {None, Some("PermissionError")}

-----------------------------------------------------------------------------
(* The run *)

Init ==
    /\ pc = "check_imagename"
    /\ args_imagename \in ImageArgs
    /\ args_package \in PackageArgs
    /\ recipes \in RecipeDBs
    /\ fs \in {"absent", "dir", "file"}
    /\ package_names = <<>>
    /\ idx = 1
    /\ install = <<>>
    /\ install_pkgs = None
    /\ pending = None
    /\ error = None
    /\ extra_append = <<>>
    /\ result = None
    /\ retval = None
    /\ calls = <<>>
    /\ dispatched = <<>>
    /\ log = <<>>

\* lines 49-50
CheckImagename ==
    /\ pc = "check_imagename"
    /\ IF args_imagename = None \/ args_imagename = Some(<<>>)
       THEN /\ pc' = "raised"
            /\ error' = Some(DevtoolError(<<"Image recipe to test must be specified">>))
       ELSE /\ pc' = "check_package"
            /\ UNCHANGED error
    /\ UNCHANGED <<args_imagename, args_package, recipes, fs, package_names, idx,
                   install, install_pkgs, pending, extra_append, result, retval,
                   calls, dispatched, log>>

\* lines 51-52
CheckPackage ==
    /\ pc = "check_package"
    /\ IF args_package = None \/ args_package = Some(<<>>)
       THEN /\ pc' = "raised"
            /\ error' = Some(DevtoolError(
                   <<"Package(s) to install must be specified via -p/--package">>))
       ELSE /\ pc' = "split_package"
            /\ UNCHANGED error
    /\ UNCHANGED <<args_imagename, args_package, recipes, fs, package_names, idx,
                   install, install_pkgs, pending, extra_append, result, retval,
                   calls, dispatched, log>>

\* lines 54-56
SplitPackage ==
    /\ pc = "split_package"
    /\ package_names' = PackageNames(Val(args_package))
    /\ IF package_names' = <<>>
       THEN /\ pc' = "raised"
            /\ error' = Some(DevtoolError(<<"No valid package name(s) provided">>))
       ELSE /\ pc' = "setup_tinfoil"
            /\ UNCHANGED error
    /\ UNCHANGED <<args_imagename, args_package, recipes, fs, idx,
                   install, install_pkgs, pending, extra_append, result, retval,
                   calls, dispatched, log>>

\* line 59
SetupTinfoil ==
    /\ pc = "setup_tinfoil"
    /\ calls' = Append(calls, Call("setup_tinfoil", <<>>))
    /\ pc' = "collect"
    /\ UNCHANGED <<args_imagename, args_package, recipes, fs, package_names, idx,
                   install, install_pkgs, pending, error, extra_append, result,
                   retval, dispatched, log>>

\* faulty variant of lines 28-42: a recipe that is not found is skipped
CollectStep_Continue ==
    /\ pc = "collect"
    /\ idx <= Len(package_names)
    /\ LET pn == package_names[idx]
           rd == parse_recipe(recipes, pn)
       IN  /\ calls' = Append(calls, Call("parse_recipe", pn))
           /\ idx' = idx + 1
           /\ IF rd = None
              THEN UNCHANGED <<install, log>>
              ELSE /\ install' = install \o Appended(pn, Packages(Val(rd)))
                   /\ log' = Append(log,
                         IF HasPtest(Packages(Val(rd)), PtestPkg(pn))
                         THEN LogRec("info", "Including ptest package %s",
                                     <<PtestPkg(pn)>>)
                         ELSE LogRec("debug", "No ptest package found for %s",
                                     <<pn>>))
    /\ UNCHANGED <<args_imagename, args_package, recipes, fs, package_names,
                   install_pkgs, pending, pc, error, extra_append, result,
                   retval, dispatched>>

\* lines 28-42: one iteration of the loop of _collect_install_packages
CollectStep ==
    /\ pc = "collect"
    /\ idx <= Len(package_names)
    /\ LET pn == package_names[idx]
           rd == parse_recipe(recipes, pn)
       IN  /\ calls' = Append(calls, Call("parse_recipe", pn))
           /\ IF rd = None
              THEN /\ pending' = Some(DevtoolError(
                          <<"Unable to find or parse recipe for package ">> \o pn))
                   /\ pc' = "finally"
                   /\ UNCHANGED <<install, idx, log>>
              ELSE /\ install' = install \o Appended(pn, Packages(Val(rd)))
                   /\ log' = Append(log,
                         IF HasPtest(Packages(Val(rd)), PtestPkg(pn))
                         THEN LogRec("info", "Including ptest package %s",
                                     <<PtestPkg(pn)>>)
                         ELSE LogRec("debug", "No ptest package found for %s",
                                     <<pn>>))
                   /\ idx' = idx + 1
                   /\ UNCHANGED <<pending, pc>>
    /\ UNCHANGED <<args_imagename, args_package, recipes, fs, package_names,
                   install_pkgs, error, extra_append, result, retval, dispatched>>

\* line 43 and the assignment of line 61
CollectReturn ==
    /\ pc = "collect"
    /\ idx > Len(package_names)
    /\ install_pkgs' = Some(install)
    /\ pc' = "finally"
    /\ UNCHANGED <<args_imagename, args_package, recipes, fs, package_names, idx,
                   install, pending, error, extra_append, result, retval, calls,
                   dispatched, log>>

\* faulty variant of lines 60-63: shutdown() after the call instead of in a finally
TinfoilShutdown_NoFinally ==
    /\ pc = "finally"
    /\ IF pending # None
       THEN pc' = "raised" /\ error' = pending /\ UNCHANGED calls
       ELSE /\ calls' = Append(calls, Call("shutdown", <<>>))
            /\ pc' = "makedirs"
            /\ UNCHANGED error
    /\ UNCHANGED <<args_imagename, args_package, recipes, fs, package_names, idx,
                   install, install_pkgs, pending, extra_append, result, retval,
                   dispatched, log>>

\* faulty variant of lines 60-63: shutdown() in an except clause instead of a finally
TinfoilShutdown_OnErrorOnly ==
    /\ pc = "finally"
    /\ IF pending # None
       THEN /\ calls' = Append(calls, Call("shutdown", <<>>))
            /\ pc' = "raised"
            /\ error' = pending
       ELSE pc' = "makedirs" /\ UNCHANGED <<error, calls>>
    /\ UNCHANGED <<args_imagename, args_package, recipes, fs, package_names, idx,
                   install, install_pkgs, pending, extra_append, result, retval,
                   dispatched, log>>

\* lines 62-63: the finally clause, then the exception goes on if there is one
TinfoilShutdown ==
    /\ pc = "finally"
    /\ calls' = Append(calls, Call("shutdown", <<>>))
    /\ IF pending # None
       THEN pc' = "raised" /\ error' = pending
       ELSE pc' = "makedirs" /\ UNCHANGED error
    /\ UNCHANGED <<args_imagename, args_package, recipes, fs, package_names, idx,
                   install, install_pkgs, pending, extra_append, result, retval,
                   dispatched, log>>

\* lines 65-69
MakeDirs ==
    /\ pc = "makedirs"
    /\ calls' = Append(calls, Call("makedirs", LogDir))
    /\ \E exc \in MakedirsOutcomes(fs) :
         IF exc = None
         THEN /\ fs' = "dir"
              /\ pc' = "overlay"
              /\ UNCHANGED error
         ELSE /\ error' = Some(DevtoolError(
                     <<"Failed to create test logs directory ">> \o LogDir
                        \o <<": ", Val(exc)>>))
              /\ pc' = "raised"
              /\ UNCHANGED fs
    /\ UNCHANGED <<args_imagename, args_package, recipes, package_names, idx,
                   install, install_pkgs, pending, extra_append, result, retval,
                   dispatched, log>>

\* lines 71-93
BuildOverlay ==
    /\ pc = "overlay"
    /\ extra_append' = ExtraAppend(LogDir, PkgAppend(Val(install_pkgs)))
    /\ log' = Append(log, LogRec("info",
                  "Building and testing image %s with packages: %s",
                  <<Val(args_imagename), join(<<" ">>, Val(install_pkgs))>>))
    /\ pc' = "dispatch"
    /\ UNCHANGED <<args_imagename, args_package, recipes, fs, package_names, idx,
                   install, install_pkgs, pending, error, result, retval, calls,
                   dispatched>>

\* lines 97-105: build_image_task answers with a result code, or raises an
\* exception of its own, which test_image lets through
BuildImageTask ==
    /\ pc = "dispatch"
    /\ calls' = Append(calls, Call("build_image_task", Val(args_imagename)))
    /\ dispatched' = Append(dispatched,
          [image |-> Val(args_imagename), add_packages |-> None,
           task |-> "testimage", extra_append |-> extra_append])
    /\ \/ /\ \E code \in 0..MaxResult : result' = Some(code)
          /\ pc' = "epilogue"
          /\ UNCHANGED error
       \/ /\ error' = Some(InvokerError)
          /\ pc' = "raised"
          /\ UNCHANGED result
    /\ UNCHANGED <<args_imagename, args_package, recipes, fs, package_names, idx,
                   install, install_pkgs, pending, extra_append, retval, log>>

\* faulty variant of lines 107-109: the completion is logged whatever the result
Return_AlwaysLogs ==
    /\ pc = "epilogue"
    /\ log' = Append(log, LogRec("info",
                  "Testimage completed. Logs are in %s", <<LogDir>>))
    /\ retval' = result
    /\ pc' = "returned"
    /\ UNCHANGED <<args_imagename, args_package, recipes, fs, package_names, idx,
                   install, install_pkgs, pending, error, extra_append, result,
                   calls, dispatched>>

\* lines 107-109
Return ==
    /\ pc = "epilogue"
    /\ log' = IF Val(result) = 0
              THEN Append(log, LogRec("info",
                       "Testimage completed. Logs are in %s", <<LogDir>>))
              ELSE log
    /\ retval' = result
    /\ pc' = "returned"
    /\ UNCHANGED <<args_imagename, args_package, recipes, fs, package_names, idx,
                   install, install_pkgs, pending, error, extra_append, result,
                   calls, dispatched>>

Next ==
    \/ CheckImagename
    \/ CheckPackage
    \/ SplitPackage
    \/ SetupTinfoil
    \/ CollectStep
    \/ CollectReturn
    \/ TinfoilShutdown
    \/ MakeDirs
    \/ BuildOverlay
    \/ BuildImageTask
    \/ Return

Spec == Init /\ [][Next]_vars

-----------------------------------------------------------------------------
(* What the properties read off a state *)

\* the positions of the calls to one collaborator
CallsTo(name) == {i \in DOMAIN calls : calls[i].call = name}

NCalls(name) == Cardinality(CallsTo(name))

\* the arguments of the parse_recipe calls, in order
RECURSIVE LookedUp(_)
LookedUp(cs) ==
    IF cs = <<>> THEN <<>>
    ELSE IF Head(cs).call = "parse_recipe"
         THEN <<Head(cs).arg>> \o LookedUp(Tail(cs))
         ELSE LookedUp(Tail(cs))

\* the input has no image name, or no package name between its commas
InvalidInput ==
    \/ args_imagename = None
    \/ args_imagename = Some(<<>>)
    \/ args_package = None
    \/ \A i \in DOMAIN Val(args_package) :
          Val(args_package)[i] \in Whitespace \cup {","}

InputErrors ==
    { DevtoolError(<<"Image recipe to test must be specified">>),
      DevtoolError(<<"Package(s) to install must be specified via -p/--package">>),
      DevtoolError(<<"No valid package name(s) provided">>) }

\* the metadata provider has no record for pn
Unresolvable(pn) == pn \notin RecipeNames \/ recipes[pn] = None

\* the requested names that have no record, by position
UnresolvedAt == {i \in DOMAIN package_names : Unresolvable(package_names[i])}

FirstUnresolved == CHOOSE i \in UnresolvedAt : \A j \in UnresolvedAt : i <= j

ResolutionError(pn) ==
    DevtoolError(<<"Unable to find or parse recipe for package ">> \o pn)

\* the PACKAGES variable of pn's record lists pn's -ptest package
ListsPtest(pn) ==
    /\ ~Unresolvable(pn)
    /\ Val(recipes[pn]) # None
    /\ \E t \in set(split_ws(Val(Val(recipes[pn])), <<>>)) : t = PtestPkg(pn)

FsCauses == {"PermissionError", "FileExistsError"}

FsErrors ==
    { DevtoolError(<<"Failed to create test logs directory ">> \o LogDir
                      \o <<": ", c>>) : c \in FsCauses }

\* the install list the overlay of a dispatch hands to the build system: the
\* words of the value of its IMAGE_INSTALL statement
OverlayInstall(d) ==
    LET i == CHOOSE k \in DOMAIN d.extra_append :
                 d.extra_append[k].var = "IMAGE_INSTALL"
    IN  split_ws(d.extra_append[i].value, <<>>)

\* inst is req in order, each name alone or followed at once by its -ptest name
RECURSIVE InRequestOrder(_, _)
InRequestOrder(req, inst) ==
    IF req = <<>> THEN inst = <<>>
    ELSE /\ inst # <<>>
         /\ Head(inst) = Head(req)
         /\ \/ InRequestOrder(Tail(req), Tail(inst))
            \/ /\ Len(inst) >= 2
               /\ inst[2] = PtestPkg(Head(req))
               /\ InRequestOrder(Tail(req), Tail(Tail(inst)))

\* the first position of x in list
FirstAt(list, x) ==
    CHOOSE i \in DOMAIN list :
        list[i] = x /\ \A h \in 1..(i - 1) : list[h] # x

Occurrences(list, x) == Cardinality({i \in DOMAIN list : list[i] = x})

CompletedLogs ==
    {i \in DOMAIN log : log[i].fmt = "Testimage completed. Logs are in %s"}

\* the order of the collaborators' calls in a run
Rank(name) ==
    CASE name = "setup_tinfoil" -> 1
      [] name = "parse_recipe" -> 2
      [] name = "shutdown" -> 3
      [] name = "makedirs" -> 4
      [] name = "build_image_task" -> 5

-----------------------------------------------------------------------------
(* The properties *)

\* C1: with no image name, or a package argument that is missing, empty or
\* holds no non-blank name between its commas, the run ends in an
\* input-validation error and never calls a collaborator: no tinfoil handle,
\* no recipe lookup, no log directory, no build/test invoker.
C1_InvalidInputFailsEarly ==
    InvalidInput =>
        /\ calls = <<>>
        /\ dispatched = <<>>
        /\ pc \in {"check_imagename", "check_package", "split_package", "raised"}
        /\ pc = "raised" => error \in {Some(e) : e \in InputErrors}

C1_Witness ==
    /\ pc = "raised"
    /\ args_imagename = Some(<<"core-image-minimal">>)
    /\ args_package # None
    /\ Len(Val(args_package)) >= 3
    /\ InvalidInput
    /\ error = Some(DevtoolError(<<"No valid package name(s) provided">>))

\* C2: a run that acquired the tinfoil handle calls its shutdown exactly once
\* by the time the resolution step is left, when every package resolved and
\* when resolution stopped at an unresolvable package alike; shutdown is never
\* called twice nor without the handle.
C2_ShutdownExactlyOnce ==
    /\ NCalls("setup_tinfoil") <= 1
    /\ NCalls("shutdown") <= NCalls("setup_tinfoil")
    /\ (NCalls("setup_tinfoil") = 1 /\ pc \notin {"collect", "finally"})
          => NCalls("shutdown") = 1

C2_Witness ==
    /\ pc = "raised"
    /\ idx >= 2
    /\ idx \in DOMAIN package_names
    /\ error = Some(ResolutionError(package_names[idx]))
    /\ NCalls("shutdown") = 1

\* C3: when a requested name has no record, the run fails with the resolution
\* error naming the first such name in request order; no later name is looked
\* up, no install list reaches the caller, the log directory is not created
\* and the invoker is not called.
C3_FirstUnresolvedIsFatal ==
    UnresolvedAt # {} =>
        /\ pc \in {"setup_tinfoil", "collect", "finally", "raised"}
        /\ install_pkgs = None
        /\ extra_append = <<>>
        /\ dispatched = <<>>
        /\ NCalls("makedirs") = 0
        /\ NCalls("build_image_task") = 0
        /\ Len(LookedUp(calls)) <= FirstUnresolved
        /\ LookedUp(calls) = SubSeq(package_names, 1, Len(LookedUp(calls)))
        /\ pc = "raised" =>
              /\ error = Some(ResolutionError(package_names[FirstUnresolved]))
              /\ Len(LookedUp(calls)) = FirstUnresolved

C3_Witness ==
    /\ pc = "raised"
    /\ UnresolvedAt # {}
    /\ FirstUnresolved >= 2
    /\ Len(package_names) > FirstUnresolved
    /\ error = Some(ResolutionError(package_names[FirstUnresolved]))

\* C4 as stated: when all packages resolve, '<pkg>-ptest' is in the install
\* list if PACKAGES of <pkg> lists it, and for a requested <pkg> whose PACKAGES
\* does not list it the name is not in the install list, whatever else was
\* requested.
C4_Original ==
    install_pkgs # None =>
        \A i \in DOMAIN package_names :
            LET pn == package_names[i]
            IN  ListsPtest(pn) <=> PtestPkg(pn) \in set(Val(install_pkgs))

\* C4 amended: when all packages resolve, '<pkg>-ptest' is in the install list
\* if PACKAGES of <pkg> lists it; for a requested <pkg> whose PACKAGES does not
\* list it the name is in the install list only when it was itself requested,
\* and then exactly as often as it was requested.
C4_PtestIffListedOrRequested ==
    install_pkgs # None =>
        \A i \in DOMAIN package_names :
            LET pn == package_names[i]
            IN  /\ ListsPtest(pn) => PtestPkg(pn) \in set(Val(install_pkgs))
                /\ ~ListsPtest(pn) =>
                      Occurrences(Val(install_pkgs), PtestPkg(pn))
                         = Occurrences(package_names, PtestPkg(pn))

C4_Witness ==
    /\ install_pkgs # None
    /\ \E i \in DOMAIN package_names :
          /\ ~ListsPtest(package_names[i])
          /\ PtestPkg(package_names[i]) \in set(Val(install_pkgs))
    /\ \E i \in DOMAIN package_names :
          /\ ListsPtest(package_names[i])
          /\ PtestPkg(package_names[i]) \in set(Val(install_pkgs))

\* C5 as stated: when all packages resolve, the install list passed to the
\* overlay holds every requested name at least once, the names in the order
\* they were first requested in, each followed at once by its test variant
\* when that variant is added.
C5_Original ==
    \A k \in DOMAIN dispatched :
        LET ov == OverlayInstall(dispatched[k])
            first == {i \in DOMAIN package_names :
                        \A h \in 1..(i - 1) : package_names[h] # package_names[i]}
        IN  /\ set(package_names) \subseteq set(ov)
            /\ \A i, j \in first :
                  i < j => FirstAt(ov, package_names[i]) < FirstAt(ov, package_names[j])
            /\ \A i \in first :
                  ListsPtest(package_names[i]) =>
                     /\ FirstAt(ov, package_names[i]) < Len(ov)
                     /\ ov[FirstAt(ov, package_names[i]) + 1]
                           = PtestPkg(package_names[i])

\* C5 amended: when all packages resolve, the install list the resolver
\* returns (the one logged before the build) holds every requested name in
\* request order, each followed at once by its test variant when that variant
\* is added; the install list passed to the overlay holds every requested name
\* at least once, but sorted, not in request order.
C5_ResolverKeepsRequestOrder ==
    /\ pc \in {"collect", "finally"} /\ pending = None =>
          InRequestOrder(SubSeq(package_names, 1, idx - 1), install)
    /\ install_pkgs # None =>
          /\ InRequestOrder(package_names, Val(install_pkgs))
          /\ \A i \in DOMAIN package_names :
                ListsPtest(package_names[i]) =>
                    \E j \in DOMAIN Val(install_pkgs) :
                        /\ j > 1
                        /\ Val(install_pkgs)[j - 1] = package_names[i]
                        /\ Val(install_pkgs)[j] = PtestPkg(package_names[i])
    /\ \A k \in DOMAIN dispatched :
          /\ set(package_names) \subseteq set(OverlayInstall(dispatched[k]))
          /\ \A i \in DOMAIN log :
                log[i].fmt = "Building and testing image %s with packages: %s"
                   => split_ws(log[i].args[2], <<>>) = Val(install_pkgs)

C5_Witness ==
    /\ dispatched # <<>>
    /\ Len(package_names) >= 2
    /\ Len(Val(install_pkgs)) > Len(package_names)
    /\ OverlayInstall(dispatched[1]) # Val(install_pkgs)
    /\ Cardinality(set(package_names)) = Len(package_names)

\* C6: when all packages resolve, with or without duplicates in the request,
\* the install list in the overlay's IMAGE_INSTALL statement has no repeated
\* name, is in ascending lexicographic order, holds exactly the names of the
\* resolver's output, and so every requested name exactly once.
C6_OverlayListSortedUnique ==
    \A k \in DOMAIN dispatched :
        LET ov == OverlayInstall(dispatched[k])
        IN  /\ \A i, j \in DOMAIN ov : i < j => StrLess(ov[i], ov[j])
            /\ \A i, j \in DOMAIN ov : i # j => ov[i] # ov[j]
            /\ set(ov) = set(Val(install_pkgs))
            /\ \A i \in DOMAIN package_names :
                  Occurrences(ov, package_names[i]) = 1

C6_Witness ==
    /\ dispatched # <<>>
    /\ Cardinality(set(package_names)) < Len(package_names)
    /\ Len(OverlayInstall(dispatched[1])) >= 3
    /\ OverlayInstall(dispatched[1]) # Val(install_pkgs)

\* C7: test_image returns the invoker's result code unchanged, zero or not,
\* and logs the log directory once when the code is 0 and never otherwise.
C7_ResultPropagated ==
    /\ pc = "returned" =>
          /\ result # None
          /\ retval = result
          /\ Cardinality(CompletedLogs) = (IF Val(result) = 0 THEN 1 ELSE 0)
          /\ \A i \in CompletedLogs : log[i].args = <<LogDir>>
    /\ pc # "returned" => (retval = None /\ CompletedLogs = {})

C7_Witness ==
    /\ pc = "returned"
    /\ retval = Some(0)
    /\ Cardinality(CompletedLogs) = 1

\* C8: the overlay passed to the invoker holds exactly one 'depends'
\* statement, the one that makes do_testimage depend on do_image_complete of
\* the same image, whatever the image name, the packages and their metadata.
C8_OneDependsStatement ==
    \A k \in DOMAIN dispatched :
       LET ov == dispatched[k].extra_append
       IN  /\ Cardinality({i \in DOMAIN ov : ov[i].flag = "depends"}) = 1
           /\ \A i \in DOMAIN ov :
                 ov[i].flag = "depends" =>
                    ov[i] = Stmt("do_testimage", "depends", "+=",
                                 <<" ${PN}:do_image_complete">>)
           /\ \A i \in DOMAIN ov :
                 ov[i].var = "do_testimage" => ov[i].flag = "depends"

C8_Witness ==
    /\ dispatched # <<>>
    /\ Len(Val(install_pkgs)) >= 3
    /\ Len(dispatched[1].extra_append) = 10

\* C9: when resolution succeeds and creating the log directory fails, the run
\* ends in a DevtoolError wrapping the cause and the invoker is not called; a
\* log directory that exists already is no failure, and the run goes on.
C9_MakedirsFailureWrapped ==
    NCalls("makedirs") > 0 =>
        /\ install_pkgs # None
        /\ IF error \in {Some(e) : e \in FsErrors}
           THEN /\ pc = "raised"
                /\ fs # "dir"
                /\ NCalls("build_image_task") = 0
                /\ dispatched = <<>>
           ELSE /\ fs = "dir"
                /\ pc \in {"overlay", "dispatch", "epilogue", "returned", "raised"}
                /\ pc = "raised" => NCalls("build_image_task") = 1

C9_Witness ==
    /\ pc = "raised"
    /\ fs = "file"
    /\ error = Some(DevtoolError(<<"Failed to create test logs directory ">>
                       \o LogDir \o <<": ", "FileExistsError">>))

\* C10: the calls of a run come in the order handle acquisition, metadata
\* lookups, handle release, log-directory creation, invoker call, all after
\* input validation; the handle is released before the log directory is
\* created and before the invoker is called; the invoker is called at most
\* once, and only after resolution and directory creation both succeeded.
C10_CallOrder ==
    /\ \A i, j \in DOMAIN calls :
          i < j => Rank(calls[i].call) <= Rank(calls[j].call)
    /\ \A n \in {"setup_tinfoil", "shutdown", "makedirs", "build_image_task"} :
          NCalls(n) <= 1
    /\ calls # <<>> =>
          /\ calls[1].call = "setup_tinfoil"
          /\ ~InvalidInput
          /\ pc \notin {"check_imagename", "check_package", "split_package"}
    /\ NCalls("makedirs") = 1 => NCalls("shutdown") = 1
    /\ NCalls("build_image_task") = 1 =>
          /\ NCalls("shutdown") = 1
          /\ NCalls("makedirs") = 1
          /\ install_pkgs # None
          /\ UnresolvedAt = {}
          /\ fs = "dir"
          /\ error \notin {Some(e) : e \in FsErrors}
    /\ Len(dispatched) = NCalls("build_image_task")

C10_Witness ==
    /\ pc = "returned"
    /\ NCalls("build_image_task") = 1
    /\ NCalls("parse_recipe") >= 2

====
